---- MODULE Spec2Model ----
(***************************************************************************)
(* A model of the text extraction service (app/main.py and app/extractors):*)
(* the six extraction endpoints, the file-type classifier and the PDF,     *)
(* image, DOC/DOCX and Docling extractors.                                 *)
(*                                                                         *)
(* A text is a sequence of one-character strings.  A message built with an *)
(* f-string is a sequence whose first element is the literal part.         *)
(* The libraries the extractors call (PyPDF2, pdf2image, pytesseract, PIL, *)
(* python-docx, LibreOffice, Docling) are the environment: each call picks *)
(* its outcome (a value, or a raised exception) from a small set.          *)
(***************************************************************************)
EXTENDS Integers, Sequences, FiniteSets, TLC

VARIABLES
    pc,             \* position of the running handler / extractor
    req,            \* the request being served: endpoint, backend, files
    idx,            \* index of the file being processed (the batch loop)
    file_path,      \* handler local: path of the saved upload
    file_type,      \* handler local: result of get_file_type
    results,        \* batch handler local: the result entries so far
    response,       \* what the caller receives
    uploads,        \* the files present in UPLOAD_DIR
    tmpdirs,        \* the temporary directories that exist, and the files in them
    calls,          \* the extractor calls made for the current file
    caught,         \* what the extractors caught or logged as an error for the current file
    ex,             \* extractor locals
    ret             \* value the extractor returned to the handler

vars == <<pc, req, idx, file_path, file_type, results, response, uploads,
          tmpdirs, calls, caught, ex, ret>>

----------------------------------------------------------------------------
(* Bounds of the model *)

MaxFiles == 2

----------------------------------------------------------------------------
(* Texts *)

Whitespace == {" ", "\n", "\t"}

RECURSIVE FirstInk(_, _)
\* the first position from i on that holds no whitespace (Len(s) + 1 if none)
FirstInk(s, i) ==
    IF i > Len(s) \/ s[i] \notin Whitespace THEN i ELSE FirstInk(s, i + 1)

RECURSIVE LastInk(_, _)
\* the last position up to i that holds no whitespace (0 if none)
LastInk(s, i) ==
    IF i < 1 \/ s[i] \notin Whitespace THEN i ELSE LastInk(s, i - 1)

\* str.strip(): drop leading and trailing whitespace
Strip(s) ==
    LET lo == FirstInk(s, 1)
        hi == LastInk(s, Len(s))
    IN  IF lo > hi THEN <<>> ELSE SubSeq(s, lo, hi)

\* c * n
Rep(c, n) == [i \in 1..n |-> c]

RECURSIVE Join(_, _)
\* sep.join(parts)
Join(sep, parts) ==
    IF Len(parts) = 0 THEN <<>>
    ELSE IF Len(parts) = 1 THEN parts[1]
    ELSE parts[1] \o sep \o Join(sep, Tail(parts))

UpperToLower ==
    [A |-> "a", B |-> "b", C |-> "c", D |-> "d", E |-> "e", F |-> "f",
     G |-> "g", H |-> "h", I |-> "i", J |-> "j", K |-> "k", L |-> "l",
     M |-> "m", N |-> "n", O |-> "o", P |-> "p", Q |-> "q", R |-> "r",
     S |-> "s", T |-> "t", U |-> "u", V |-> "v", W |-> "w", X |-> "x",
     Y |-> "y", Z |-> "z"]

\* str.lower()
Lower(s) ==
    [i \in 1..Len(s) |->
        IF s[i] \in DOMAIN UpperToLower THEN UpperToLower[s[i]] ELSE s[i]]

\* str.rfind(c): 0 when c does not occur (positions are 1-based here)
RFind(s, c) ==
    LET at == {i \in 1..Len(s) : s[i] = c}
    IN  IF at = {} THEN 0 ELSE CHOOSE i \in at : \A j \in at : j <= i

\* os.path.splitext(p)[1]: the part from the last dot of the last path
\* component, unless that component has only leading dots before it
SplitExt(p) ==
    LET sepIndex == RFind(p, "/")
        dotIndex == RFind(p, ".")
    IN  IF dotIndex > sepIndex
           /\ \E k \in (sepIndex + 1)..(dotIndex - 1) : p[k] # "."
        THEN SubSeq(p, dotIndex, Len(p))
        ELSE <<>>

----------------------------------------------------------------------------
(* get_file_type *)

PdfExts == {<<".", "p", "d", "f">>}
DocExts == {<<".", "d", "o", "c">>, <<".", "d", "o", "c", "x">>}
ImageExts ==
    {<<".", "j", "p", "g">>, <<".", "j", "p", "e", "g">>, <<".", "p", "n", "g">>,
     <<".", "t", "i", "f", "f">>, <<".", "t", "i", "f">>, <<".", "b", "m", "p">>,
     <<".", "g", "i", "f">>}
ExcelExts == {<<".", "x", "l", "s", "x">>, <<".", "x", "l", "s">>}
PowerpointExts == {<<".", "p", "p", "t", "x">>, <<".", "p", "p", "t">>}
HtmlExts == {<<".", "h", "t", "m", "l">>, <<".", "h", "t", "m">>}
TextExts == {<<".", "t", "x", "t">>, <<".", "m", "d">>}

\* get_file_type without .lower()
get_file_type_cased(filename) ==
    LET extension == SplitExt(filename)
    IN  IF extension \in PdfExts THEN "pdf"
        ELSE IF extension \in DocExts THEN "doc"
        ELSE IF extension \in ImageExts THEN "image"
        ELSE IF extension \in ExcelExts THEN "excel"
        ELSE IF extension \in PowerpointExts THEN "powerpoint"
        ELSE IF extension \in HtmlExts THEN "html"
        ELSE IF extension \in TextExts THEN "text"
        ELSE "unknown"

get_file_type(filename) ==
    LET extension == Lower(SplitExt(filename))
    IN  IF extension \in PdfExts THEN "pdf"
        ELSE IF extension \in DocExts THEN "doc"
        ELSE IF extension \in ImageExts THEN "image"
        ELSE IF extension \in ExcelExts THEN "excel"
        ELSE IF extension \in PowerpointExts THEN "powerpoint"
        ELSE IF extension \in HtmlExts THEN "html"
        ELSE IF extension \in TextExts THEN "text"
        ELSE "unknown"

----------------------------------------------------------------------------
(* Requests *)

a_pdf == <<"a", ".", "p", "d", "f">>
a_docx == <<"a", ".", "d", "o", "c", "x">>
a_doc == <<"a", ".", "d", "o", "c">>
a_png == <<"a", ".", "p", "n", "g">>
a_xyz == <<"a", ".", "x", "y", "z">>

\* the filenames of the modelled requests
Filenames == {a_pdf, a_docx, a_doc, a_png, a_xyz}

SingleEndpoints ==
    {"/extract-text/", "/extract-text-legacy/",
     "/extract-text-base64/", "/extract-text-base64-legacy/"}
BatchEndpoints == {"/batch-extract/", "/batch-extract-legacy/"}
Base64Endpoints == {"/extract-text-base64/", "/extract-text-base64-legacy/"}
LegacyEndpoints ==
    {"/extract-text-legacy/", "/extract-text-base64-legacy/", "/batch-extract-legacy/"}
Endpoints == SingleEndpoints \cup BatchEndpoints

\* the backend query parameter; the -legacy endpoints have none
Backends(endpoint) ==
    IF endpoint \in LegacyEndpoints THEN {"legacy"} ELSE {"docling", "legacy"}

FileLists(endpoint) ==
    IF endpoint \in BatchEndpoints
    THEN UNION {[1..n -> Filenames] : n \in 1..MaxFiles}
    ELSE [1..1 -> Filenames]

NoResponse == [http |-> 0]
NoExtractor == [fn |-> "none", temp_dir |-> <<>>, raised |-> FALSE]

\* uuid.uuid4().hex and the name tempfile picks: a name nothing else has
\* (one upload and at most one temporary directory per file of a request)
FreshName(i) == ToString(i)

\* UPLOAD_DIR/<uuid4().hex><extension of the filename>
UploadPath(id, filename) == <<"uploads", "/", id>> \o SplitExt(filename)

\* tempfile.TemporaryDirectory()
TempDir(id) == <<"tmp", "/", id>>

\* os.path.join(temp_dir, filename)
InDir(temp_dir, filename) == temp_dir \o <<"/">> \o filename

\* path is the directory or lies in it
Under(temp_dir, path) ==
    /\ Len(path) >= Len(temp_dir)
    /\ SubSeq(path, 1, Len(temp_dir)) = temp_dir

\* RemoveTree with os.rmdir for the removal: a directory that holds a file
\* stays
RemoveEmptyDir(fs, temp_dir) ==
    IF \E path \in fs : path # temp_dir /\ Under(temp_dir, path)
    THEN fs
    ELSE fs \ {temp_dir}

\* TemporaryDirectory.__exit__: the directory and everything in it are
\* removed; a call that made no directory removes nothing
RemoveTree(fs, temp_dir) ==
    IF temp_dir = <<>> THEN fs
    ELSE {path \in fs : ~Under(temp_dir, path)}

\* the text of the "unsupported" branch of each handler
UnsupportedMessage(endpoint, filename) ==
    IF endpoint \in LegacyEndpoints
    THEN <<"Unsupported file type: ">> \o filename
    ELSE <<"Legacy backend doesn't support file type: ">> \o filename

\* str(e) of HTTPException(status_code=400, detail=msg)
HTTPException400(msg) == <<"400: ">> \o msg

\* the body returned by a single-file handler
SingleResult(filename, text, ftype, backend) ==
    [http |-> 200,
     body |-> [filename |-> filename, text |-> text,
               file_type |-> ftype, backend |-> backend]]

\* except Exception as e: raise HTTPException(status_code=500, ...)
SingleError(e) ==
    [http |-> 500, body |-> [detail |-> <<"Error processing file: ">> \o e]]

\* the entry a batch handler appends after a file was processed
BatchEntry(filename, text, ftype, backend) ==
    [filename |-> filename, text |-> text, file_type |-> ftype,
     status |-> "success", backend |-> backend]

\* the entry a batch handler appends in its except branch
BatchErrorEntry(filename, e, backend) ==
    [filename |-> filename, error |-> e, status |-> "error", backend |-> backend]

BatchResponse(entries) == [http |-> 200, body |-> [results |-> entries]]

----------------------------------------------------------------------------
(* The handlers *)

Init ==
    /\ pc = "idle"
    /\ req = [endpoint |-> "", backend |-> "", files |-> <<>>]
    /\ idx = 0
    /\ file_path = <<>>
    /\ file_type = ""
    /\ results = <<>>
    /\ response = NoResponse
    /\ uploads = {}
    /\ tmpdirs = {}
    /\ calls = <<>>
    /\ caught = {}
    /\ ex = NoExtractor
    /\ ret = <<>>

\* a request arrives at one of the endpoints
Receive ==
    /\ pc = "idle"
    /\ \E endpoint \in Endpoints :
        \E backend \in Backends(endpoint) :
            \E files \in FileLists(endpoint) :
                req' = [endpoint |-> endpoint, backend |-> backend, files |-> files]
    /\ idx' = 1
    /\ results' = <<>>
    /\ pc' = "file"
    /\ UNCHANGED <<file_path, file_type, response, uploads, tmpdirs,
                   calls, caught, ex, ret>>

\* the handler is done with the current file: a single-file handler answers
\* with `single`, a batch handler appends `entry` and goes on with the next
\* file, or returns the entries after the last one
Answer(single, entry) ==
    IF req.endpoint \in SingleEndpoints
    THEN /\ response' = single
         /\ pc' = "done"
         /\ UNCHANGED <<results, idx>>
    ELSE /\ results' = Append(results, entry)
         /\ IF idx = Len(req.files)
            THEN /\ response' = BatchResponse(results')
                 /\ pc' = "done"
                 /\ idx' = idx
            ELSE /\ response' = response
                 /\ pc' = "file"
                 /\ idx' = idx + 1

\* HandlerExcept with the exception ending the request: a batch handler
\* appends nothing and stops
HandlerExceptAborts(e) ==
    /\ response' = SingleError(e)
    /\ pc' = "done"
    /\ UNCHANGED <<results, idx>>

\* the except branch of the handler
HandlerExcept(e) ==
    Answer(SingleError(e),
           BatchErrorEntry(req.files[idx], e, req.backend))

\* the lines after the extraction: os.remove(file_path), then the result
HandlerReturn(path, text, ftype, ups) ==
    /\ uploads' = ups \ {path}
    /\ Answer(SingleResult(req.files[idx], text, ftype, req.backend),
              BatchEntry(req.files[idx], text, ftype, req.backend))

\* the else branch of the legacy dispatch: a single-file handler raises
\* HTTPException(400), which its own except branch catches; a batch handler
\* puts the message in the text
Unsupported(path, ftype, ups) ==
    LET msg == UnsupportedMessage(req.endpoint, req.files[idx])
    IN  IF req.endpoint \in SingleEndpoints
        THEN /\ uploads' = ups
             /\ HandlerExcept(HTTPException400(msg))
        ELSE HandlerReturn(path, msg, ftype, ups)

\* extract_text_from_doc: the extractor chosen by the extension of the path
DocEntry(path) ==
    LET file_extension == Lower(SplitExt(path))
    IN  IF file_extension = <<".", "d", "o", "c", "x">> THEN "docx"
        ELSE IF file_extension = <<".", "d", "o", "c">> THEN "doc_legacy"
        ELSE "doc_unsupported"

\* where the handler's dispatch goes
Dispatch(backend, ftype, path) ==
    IF backend = "docling" THEN "docling"
    ELSE IF ftype = "pdf" THEN "pdf_open"
    ELSE IF ftype = "doc" THEN DocEntry(path)
    ELSE IF ftype = "image" THEN "img_open"
    ELSE "unsupported"

\* the name of the extractor the dispatch calls
Extractor(backend, ftype) ==
    IF backend = "docling" THEN "docling_extractor"
    ELSE IF ftype = "pdf" THEN "extract_text_from_pdf"
    ELSE IF ftype = "doc" THEN "extract_text_from_doc"
    ELSE "extract_text_from_image"

\* the locals of an extractor on entry
EnterExtractor(fn) ==
    [fn |-> fn, extracted_text |-> <<>>, direct_text |-> <<>>, ocr_text |-> <<>>,
     pages |-> <<>>, page_num |-> 0, images |-> <<>>, i |-> 0,
     text |-> <<>>, temp_dir |-> <<>>, attempts |-> <<>>,
     conversion |-> [seconds |-> 0, returncode |-> 0, listing |-> {}],
     doc |-> [paragraphs |-> <<>>, tables |-> <<>>],
     raised |-> FALSE]

\* the handler saves the upload, classifies it and dispatches
StartFile ==
    /\ pc = "file"
    /\ LET filename == req.files[idx]
           path == UploadPath(FreshName(idx), filename)
           ftype == get_file_type(filename)
           target == Dispatch(req.backend, ftype, path)
       IN  /\ caught' = {}
           /\ \E saved \in {"ok", "decode_error"} :
                IF saved = "decode_error"
                THEN \* base64.b64decode raises: nothing was written
                     /\ req.endpoint \in Base64Endpoints
                     /\ HandlerExcept(<<"binascii.Error">>)
                     /\ file_path' = <<>>
                     /\ file_type' = ""
                     /\ calls' = <<>>
                     /\ ex' = NoExtractor
                     /\ UNCHANGED <<uploads, ret>>
                ELSE /\ file_path' = path
                     /\ file_type' = ftype
                     /\ IF target = "unsupported"
                        THEN /\ Unsupported(path, ftype, uploads \cup {path})
                             /\ calls' = <<>>
                             /\ ex' = NoExtractor
                             /\ ret' = ret
                        ELSE /\ uploads' = uploads \cup {path}
                             /\ calls' = <<Extractor(req.backend, ftype)>>
                             /\ ex' = EnterExtractor(target)
                             /\ IF target = "doc_unsupported"
                                THEN pc' = "ret" /\ ret' = <<>>
                                ELSE pc' = target /\ ret' = ret
                             /\ UNCHANGED <<results, response, idx>>
    /\ UNCHANGED <<req, tmpdirs>>

\* an exception escapes the extractor (one raised outside its try blocks,
\* such as a MemoryError): the handler's except branch takes it
ExtractorRaises ==
    /\ pc \in {"docling", "pdf_open", "img_open", "docx", "doc_legacy"}
    /\ ex.temp_dir = <<>>
    /\ ex' = [ex EXCEPT !.raised = TRUE]
    /\ HandlerExcept(<<"MemoryError">>)
    /\ UNCHANGED <<req, file_path, file_type, uploads, tmpdirs, calls,
                   caught, ret>>

\* the extractor returned: the handler removes the upload and answers
FinishFile ==
    /\ pc = "ret"
    /\ HandlerReturn(file_path, ret, file_type, uploads)
    /\ UNCHANGED <<req, file_path, file_type, tmpdirs, calls, caught, ex, ret>>

----------------------------------------------------------------------------
(* extract_text_from_pdf and extract_text_with_ocr *)

PdfMinChars == 100

\* what a library call does: it returns a text, or it raises
Text(t) == [raises |-> FALSE, text |-> t]
Raise == [raises |-> TRUE, text |-> <<>>]

d49 == Rep("d", 49)
d98 == <<" ">> \o Rep("d", 98) \o <<"\n">>
o49 == Rep("o", 49)
o50 == Rep("o", 50) \o <<"\n">>

\* the PDFs of the modelled requests, as PyPDF2 reads them: whether the
\* reader opens the file, and what page.extract_text() does on each page
PdfFiles ==
    {[opens |-> FALSE, pages |-> <<>>],
     [opens |-> TRUE, pages |-> <<>>],
     [opens |-> TRUE, pages |-> <<Raise>>],
     [opens |-> TRUE, pages |-> <<Text(d49)>>],
     [opens |-> TRUE, pages |-> <<Text(<<" ">>), Text(d98)>>],
     [opens |-> TRUE, pages |-> <<Text(d49), Text(d49)>>],
     [opens |-> TRUE, pages |-> <<Text(d49), Raise>>]}

\* the same PDFs as pdf2image and pytesseract read them: whether the pages
\* are rendered, and what image_to_string does on each image
PdfScans ==
    {[renders |-> FALSE, images |-> <<>>],
     [renders |-> TRUE, images |-> <<>>],
     [renders |-> TRUE, images |-> <<Text(o49)>>],
     [renders |-> TRUE, images |-> <<Text(o50)>>],
     [renders |-> TRUE, images |-> <<Text(o49), Text(o50)>>],
     [renders |-> TRUE, images |-> <<Text(o49), Raise>>]}

\* NeedsOcr with <= for <
NeedsOcrInclusive(extracted_text) == Len(Strip(extracted_text)) <= PdfMinChars

\* the test of line 47: too little text was extracted directly
NeedsOcr(extracted_text) == Len(Strip(extracted_text)) < PdfMinChars

\* SelectText with >= for >
SelectTextOnTie(extracted_text, ocr_text) ==
    Strip(IF Len(Strip(ocr_text)) >= Len(Strip(extracted_text))
          THEN ocr_text
          ELSE extracted_text)

\* lines 52-55: the OCR text replaces the extracted text if it is longer
SelectText(extracted_text, ocr_text) ==
    Strip(IF Len(Strip(ocr_text)) > Len(Strip(extracted_text))
          THEN ocr_text
          ELSE extracted_text)

\* lines 39-40: a page's text is added unless it is blank
AddPage(extracted_text, page_text) ==
    IF Strip(page_text) # <<>>
    THEN extracted_text \o page_text \o <<"\n", "\n">>
    ELSE extracted_text

\* the except branch of the direct extraction: the error is logged and the
\* text extracted so far stays
DirectFailed(extracted_text) == extracted_text

\* open(file_path) and PyPDF2.PdfReader(file): the pages, or an exception
PdfOpen ==
    /\ pc = "pdf_open"
    /\ \E pdf \in PdfFiles :
        IF pdf.opens
        THEN /\ ex' = [ex EXCEPT !.pages = pdf.pages]
             /\ pc' = IF Len(pdf.pages) = 0 THEN "pdf_check" ELSE "pdf_page"
             /\ caught' = caught
        ELSE /\ ex' = [ex EXCEPT !.extracted_text = DirectFailed(@)]
             /\ caught' = caught \cup {"direct"}
             /\ pc' = "pdf_check"
    /\ UNCHANGED <<req, idx, file_path, file_type, results, response, uploads,
                   tmpdirs, calls, ret>>

\* one turn of the page loop: page.extract_text() returns a text or raises
PdfPage ==
    /\ pc = "pdf_page"
    /\ LET page == ex.pages[ex.page_num + 1]
       IN  IF page.raises
           THEN /\ ex' = [ex EXCEPT !.extracted_text = DirectFailed(@)]
                /\ caught' = caught \cup {"direct"}
                /\ pc' = "pdf_check"
           ELSE /\ ex' = [ex EXCEPT
                            !.extracted_text = AddPage(@, page.text),
                            !.page_num = @ + 1]
                /\ pc' = IF ex'.page_num = Len(ex.pages)
                         THEN "pdf_check" ELSE "pdf_page"
                /\ caught' = caught
    /\ UNCHANGED <<req, idx, file_path, file_type, results, response, uploads,
                   tmpdirs, calls, ret>>

\* line 47: return the extracted text, or call extract_text_with_ocr, which
\* makes its temporary directory
PdfCheck ==
    /\ pc = "pdf_check"
    /\ IF NeedsOcr(ex.extracted_text)
       THEN /\ calls' = Append(calls, "extract_text_with_ocr")
            /\ tmpdirs' = tmpdirs \cup {TempDir(FreshName(idx))}
            /\ ex' = [ex EXCEPT !.direct_text = ex.extracted_text,
                                !.temp_dir = TempDir(FreshName(idx))]
            /\ pc' = "ocr_render"
            /\ ret' = ret
       ELSE /\ ret' = Strip(ex.extracted_text)
            /\ ex' = [ex EXCEPT !.direct_text = ex.extracted_text]
            /\ pc' = "ret"
            /\ UNCHANGED <<calls, tmpdirs>>
    /\ UNCHANGED <<req, idx, file_path, file_type, results, response, uploads,
                   caught>>

\* the file pdf2image writes for page k in the output folder
PageImage(temp_dir, k) == InDir(temp_dir, <<ToString(k), ".", "p", "p", "m">>)

\* extract_text_with_ocr returns `text`, `written` being the files the last
\* call left in the temporary directory: the directory is removed on the way
\* out, and lines 52-55 choose the text the extractor returns
OcrReturn(text, written) ==
    /\ tmpdirs' = RemoveTree(tmpdirs \cup written, ex.temp_dir)
    /\ ex' = [ex EXCEPT !.ocr_text = text, !.temp_dir = <<>>]
    /\ ret' = SelectText(ex.extracted_text, text)
    /\ pc' = "ret"

\* OcrFailed returning the text read before the failure
OcrFailedKeeps(text) == text

\* the except branch of extract_text_with_ocr: return ""
OcrFailed(text) == <<>>

\* convert_from_path renders the pages into the temporary directory, or
\* raises, with or without a page already written
OcrRender ==
    /\ pc = "ocr_render"
    /\ \E scan \in PdfScans :
        IF ~scan.renders
        THEN /\ caught' = caught \cup {"ocr"}
             /\ \E written \in {{}, {PageImage(ex.temp_dir, 1)}} :
                    OcrReturn(OcrFailed(ex.text), written)
        ELSE /\ caught' = caught
             /\ IF Len(scan.images) = 0
                THEN OcrReturn(<<>>, {})
                ELSE /\ ex' = [ex EXCEPT !.images = scan.images]
                     /\ tmpdirs' = tmpdirs \cup
                            {PageImage(ex.temp_dir, k) : k \in 1..Len(scan.images)}
                     /\ pc' = "ocr_page"
                     /\ ret' = ret
    /\ UNCHANGED <<req, idx, file_path, file_type, results, response, uploads,
                   calls>>

\* one turn of the image loop: pytesseract.image_to_string returns or raises
OcrPage ==
    /\ pc = "ocr_page"
    /\ LET image == ex.images[ex.i + 1]
           text == ex.text \o image.text \o <<"\n", "\n">>
       IN  IF image.raises
           THEN /\ caught' = caught \cup {"ocr"}
                /\ OcrReturn(OcrFailed(ex.text), {})
           ELSE /\ caught' = caught
                /\ IF ex.i + 1 = Len(ex.images)
                   THEN OcrReturn(text, {})
                   ELSE /\ ex' = [ex EXCEPT !.text = text, !.i = @ + 1]
                        /\ UNCHANGED <<pc, tmpdirs, ret>>
    /\ UNCHANGED <<req, idx, file_path, file_type, results, response, uploads,
                   calls>>

----------------------------------------------------------------------------
(* extract_text_from_image *)

ImageMinChars == 50

\* what pytesseract reads from an image
ImageTexts == {<<>>, <<" ">> \o Rep("i", 49) \o <<"\n">>, Rep("i", 50)}

\* TooShort with <= for <
TooShortInclusive(text) == Len(Strip(text)) <= ImageMinChars

\* the test of lines 56 and 64: little text was found
TooShort(text) == Len(Strip(text)) < ImageMinChars

\* Image.open and enhance_image
ImgOpen ==
    /\ pc = "img_open"
    /\ \E opened \in {"open_error", "enhance_error", "ok"} :
        IF opened = "ok"
        THEN /\ pc' = "img_ocr1"
             /\ UNCHANGED <<caught, ret>>
        ELSE /\ caught' = caught \cup {opened}
             /\ ret' = <<>>
             /\ pc' = "ret"
    /\ UNCHANGED <<req, idx, file_path, file_type, results, response, uploads,
                   tmpdirs, calls, ex>>

\* one pytesseract.image_to_string call of the function: it raises, and the
\* function returns "", or it returns a text, and the function tries the
\* next settings if the text is short and there are settings left
OcrAttempt(image, config, next) ==
    \/ /\ ex' = [ex EXCEPT !.attempts =
                    Append(@, [image |-> image, config |-> config,
                               raised |-> TRUE, text |-> <<>>])]
       /\ caught' = caught \cup {"image_to_string"}
       /\ ret' = <<>>
       /\ pc' = "ret"
    \/ \E text \in ImageTexts :
        /\ ex' = [ex EXCEPT !.text = text, !.attempts =
                    Append(@, [image |-> image, config |-> config,
                               raised |-> FALSE, text |-> text])]
        /\ caught' = caught
        /\ IF next # "ret" /\ TooShort(text)
           THEN pc' = next /\ ret' = ret
           ELSE pc' = "ret" /\ ret' = Strip(text)

\* line 53: the enhanced image, default settings
ImgOcr1 ==
    /\ pc = "img_ocr1"
    /\ OcrAttempt("enhanced", "", "img_ocr2")
    /\ UNCHANGED <<req, idx, file_path, file_type, results, response, uploads,
                   tmpdirs, calls>>

\* line 61: the enhanced image, --oem 3 --psm 6
ImgOcr2 ==
    /\ pc = "img_ocr2"
    /\ OcrAttempt("enhanced", "--oem 3 --psm 6", "img_ocr3")
    /\ UNCHANGED <<req, idx, file_path, file_type, results, response, uploads,
                   tmpdirs, calls>>

\* line 66: the original image, default settings
ImgOcr3 ==
    /\ pc = "img_ocr3"
    /\ OcrAttempt("original", "", "ret")
    /\ UNCHANGED <<req, idx, file_path, file_type, results, response, uploads,
                   tmpdirs, calls>>

----------------------------------------------------------------------------
(* extract_text_from_docx and extract_text_from_doc_legacy *)

ConversionTimeout == 30

\* the documents python-docx reads: paragraphs, and tables of rows of cells;
\* the text of a cell with two paragraphs holds a line break
Documents ==
    {[paragraphs |-> <<>>, tables |-> <<>>],
     [paragraphs |-> <<<<>>>>, tables |-> <<>>],
     [paragraphs |-> <<<<"p">>, <<>>, <<"q">>>>,
      tables |-> << << <<<<"a">>, <<>>>>, <<<<"b">>, <<"c">>>> >> >>],
     [paragraphs |-> <<>>,
      tables |-> << << <<<<"x", "\n", "y">>>> >>,
                    << <<<<>>>>, <<<<"z">>>> >> >>]}

RECURSIVE Flatten(_)
\* the elements of the sequences of a sequence, in order
Flatten(seqs) ==
    IF Len(seqs) = 0 THEN <<>> ELSE Head(seqs) \o Flatten(Tail(seqs))

\* DocxText with `if text:` before each append: empty entries are left out
DocxTextSkipsEmpty(doc) ==
    LET full_text == doc.paragraphs \o Flatten(Flatten(doc.tables))
    IN  Join(<<"\n">>, SelectSeq(full_text, LAMBDA t : t # <<>>))

\* lines 46-55: the paragraph texts, then the cell texts of every row of
\* every table, joined by newlines
DocxText(doc) ==
    LET full_text == doc.paragraphs \o Flatten(Flatten(doc.tables))
    IN  Join(<<"\n">>, full_text)

id_docx == <<"1", ".", "d", "o", "c", "x">>
id_log == <<"1", ".", "l", "o", "g">>

\* the runs of LibreOffice on the modelled requests: how long the process
\* takes, its return code, and what it leaves in the output directory
Conversions ==
    {[seconds |-> 2, returncode |-> 0, listing |-> {id_docx}],
     [seconds |-> 2, returncode |-> 0, listing |-> {id_log, id_docx}],
     [seconds |-> 2, returncode |-> 0, listing |-> {}],
     [seconds |-> 2, returncode |-> 0, listing |-> {id_log}],
     [seconds |-> 2, returncode |-> 1, listing |-> {}],
     [seconds |-> 2, returncode |-> 1, listing |-> {id_docx}],
     [seconds |-> 31, returncode |-> 0, listing |-> {id_docx}]}

\* filename.endswith('.docx')
EndsWithDocx(filename) ==
    /\ Len(filename) >= 5
    /\ SubSeq(filename, Len(filename) - 4, Len(filename)) = <<".", "d", "o", "c", "x">>

\* subprocess.run(..., timeout=30) raises TimeoutExpired
TimedOut(run) == run.seconds > ConversionTimeout

\* Converted without the test of the return code
ConvertedAnyReturnCode(run) ==
    /\ ~TimedOut(run)
    /\ \E filename \in run.listing : EndsWithDocx(filename)

\* lines 93-105: the conversion ended in time with return code 0 and a
\* .docx file is in the output directory
Converted(run) ==
    /\ ~TimedOut(run)
    /\ run.returncode = 0
    /\ \E filename \in run.listing : EndsWithDocx(filename)

\* extract_text_from_docx: docx.Document raises, or the document is read;
\* when extract_text_from_doc_legacy called it, its temporary directory is
\* removed on the way out
DocxExtract ==
    /\ pc = "docx"
    /\ calls' = Append(calls, "extract_text_from_docx")
    /\ \/ /\ caught' = caught \cup {"docx"}
          /\ ret' = <<>>
          /\ ex' = [ex EXCEPT !.temp_dir = <<>>]
       \/ /\ caught' = caught
          /\ \E doc \in Documents :
                /\ ret' = DocxText(doc)
                /\ ex' = [ex EXCEPT !.temp_dir = <<>>, !.doc = doc]
    /\ tmpdirs' = RemoveTree(tmpdirs, ex.temp_dir)
    /\ pc' = "ret"
    /\ UNCHANGED <<req, idx, file_path, file_type, results, response, uploads>>

\* extract_text_from_doc_legacy makes its temporary directory
DocLegacy ==
    /\ pc = "doc_legacy"
    /\ tmpdirs' = tmpdirs \cup {TempDir(FreshName(idx))}
    /\ ex' = [ex EXCEPT !.temp_dir = TempDir(FreshName(idx))]
    /\ pc' = "doc_convert"
    /\ UNCHANGED <<req, idx, file_path, file_type, results, response, uploads,
                   calls, caught, ret>>

\* subprocess.run(libreoffice ..., timeout=30) and the search for the
\* converted file: LibreOffice leaves its files in the directory, and the
\* function goes on with extract_text_from_docx, or it logs the error and
\* returns "", and its directory is removed with what is in it
DocConvert ==
    /\ pc = "doc_convert"
    /\ calls' = Append(calls, "libreoffice")
    /\ \E run \in Conversions :
        LET written == {InDir(ex.temp_dir, filename) : filename \in run.listing}
        IN  IF Converted(run)
            THEN /\ ex' = [ex EXCEPT !.conversion = run]
                 /\ tmpdirs' = tmpdirs \cup written
                 /\ pc' = "docx"
                 /\ UNCHANGED <<caught, ret>>
            ELSE /\ ex' = [ex EXCEPT !.conversion = run, !.temp_dir = <<>>]
                 /\ caught' = caught \cup {"conversion"}
                 /\ tmpdirs' = RemoveTree(tmpdirs \cup written, ex.temp_dir)
                 /\ ret' = <<>>
                 /\ pc' = "ret"
    /\ UNCHANGED <<req, idx, file_path, file_type, results, response, uploads>>

----------------------------------------------------------------------------
(* DoclingExtractor.extract_text and extract_text_from_bytes *)

DoclingTexts == {<<>>, <<"#", " ", "m">>}

DoclingExtract ==
    /\ pc = "docling"
    /\ \E converted \in {"raises", "error", "ok"} :
        CASE converted = "raises" ->
                /\ caught' = caught \cup {"docling"}
                /\ ret' = <<>>
          [] converted = "error" ->
                /\ caught' = caught \cup {"status"}
                /\ ret' = <<>>
          [] converted = "ok" ->
                /\ caught' = caught
                /\ \E text \in DoclingTexts : ret' = text
    /\ pc' = "ret"
    /\ UNCHANGED <<req, idx, file_path, file_type, results, response, uploads,
                   tmpdirs, calls, ex>>

----------------------------------------------------------------------------

Next ==
    \/ Receive
    \/ StartFile
    \/ ExtractorRaises
    \/ FinishFile
    \/ PdfOpen
    \/ PdfPage
    \/ PdfCheck
    \/ OcrRender
    \/ OcrPage
    \/ ImgOpen
    \/ ImgOcr1
    \/ ImgOcr2
    \/ ImgOcr3
    \/ DocxExtract
    \/ DocLegacy
    \/ DocConvert
    \/ DoclingExtract

Spec == Init /\ [][Next]_vars

----------------------------------------------------------------------------
(* get_file_type on its own: the function is applied to one filename after *)
(* another                                                                 *)

Stems ==
    {<<"a">>, <<>>, <<".">>, <<"a", ".", "b">>, <<"a", ".", "p", "d", "f">>,
     <<"d", ".", "p", "d", "f", "/", "a">>, <<"d", "/">>}

OtherExts ==
    {<<>>, <<".">>, <<".", "x", "y", "z">>, <<".", "p", "d", "f", "x">>,
     <<".", "p", "d">>, <<".", "P", "D", "F">>, <<".", "D", "o", "c", "X">>,
     <<".", "J", "P", "E", "G">>, <<".", "X", "L", "S">>, <<".", "M", "d">>,
     <<".", "p", "d", "f", "/">>, <<".", "p", "d", "f", " ">>}

ClassifiedNames ==
    {stem \o ext : stem \in Stems,
                   ext \in PdfExts \cup DocExts \cup ImageExts \cup ExcelExts
                           \cup PowerpointExts \cup HtmlExts \cup TextExts
                           \cup OtherExts}

Classify ==
    /\ pc = "idle"
    /\ \E filename \in ClassifiedNames :
        /\ req' = [endpoint |-> "", backend |-> "", files |-> <<filename>>]
        /\ file_type' = get_file_type(filename)
    /\ UNCHANGED <<pc, idx, file_path, results, response, uploads, tmpdirs,
                   calls, caught, ex, ret>>

SpecClassify == Init /\ [][Classify]_vars

----------------------------------------------------------------------------
(* What the properties below speak of *)

IsSingle == req.endpoint \in SingleEndpoints
IsBatch == req.endpoint \in BatchEndpoints

\* the handler has just finished a file: calls, caught, ex and ret are
\* those of that file
JustAnswered == pc = "done" \/ (pc = "file" /\ idx > 1)

\* the number of files the handler has finished
Finished == IF pc = "done" THEN idx ELSE idx - 1

LastFile == req.files[Finished]

\* what the caller gets for the last finished file
LastOutcome == IF IsSingle THEN response.body ELSE results[Len(results)]

\* the status of the last finished file is the one an exception gives
LastIsError ==
    IF IsSingle THEN response.http = 500 ELSE LastOutcome.status = "error"

\* the status of the last finished file is the one a returned text gives
LastIsSuccess ==
    IF IsSingle THEN response.http = 200 ELSE LastOutcome.status = "success"

Count(log, name) == Cardinality({k \in DOMAIN log : log[k] = name})

----------------------------------------------------------------------------
(* C1: a file whose name classifies as unknown never reaches an extractor, *)
(* and what the caller gets for it has another status than the one an      *)
(* exception during extraction gives.  Stated for the files the handler    *)
(* saved, on every endpoint and backend.                                   *)
C1_UnknownNeverExtracted ==
    (JustAnswered /\ file_path # <<>> /\ get_file_type(LastFile) = "unknown")
        => (calls = <<>> /\ ~LastIsError)

(* C2: when an extractor caught or logged an error for a file, the caller  *)
(* does not get what it gets for a file without text: the status of a      *)
(* returned text together with the empty text.                             *)
C2_ErrorDistinctFromNoText ==
    (JustAnswered /\ caught # {})
        => ~(LastIsSuccess /\ LastOutcome.text = <<>>)

\* the outcome carries no extracted text: its text is empty, or it has no
\* text field (the error answers of the handlers have none)
NoText(outcome) == "text" \in DOMAIN outcome => outcome.text = <<>>

(* C3: when an exception escapes the extractor, the handler turns it into  *)
(* a structured error without text: an HTTP 500 with a detail from the     *)
(* single-file handlers, an entry with status "error" for that file from   *)
(* the batch handlers; a batch handler goes on with the remaining files    *)
(* and returns exactly one entry per file, in the order of the files.      *)
C3_RaiseBecomesErrorResult ==
    /\ (IsBatch /\ pc # "idle") =>
            /\ Len(results) = Finished
            /\ \A k \in 1..Len(results) : results[k].filename = req.files[k]
    /\ (IsBatch /\ pc = "done") =>
            /\ Len(results) = Len(req.files)
            /\ response = BatchResponse(results)
    /\ (JustAnswered /\ ex.raised) =>
            /\ LastIsError
            /\ NoText(LastOutcome)
            /\ IsSingle => "detail" \in DOMAIN LastOutcome
            /\ IsBatch =>
                    /\ "error" \in DOMAIN LastOutcome
                    /\ LastOutcome.filename = LastFile

\* a batch of two files: the extractor raised on the first, the second was
\* processed and the answer holds both entries
C3_Witness ==
    /\ IsBatch
    /\ pc = "done"
    /\ Len(results) = 2
    /\ results[1].status = "error"
    /\ results[2].status = "success"
    /\ results[2].text # <<>>

(* C4, as claimed: get_file_type returns one of the four categories pdf,   *)
(* doc (the spec's legacy_doc), image and unknown, and every extension     *)
(* other than .pdf, .doc, .docx and the seven image extensions gives       *)
(* unknown.                                                                *)
C4_FourCategories ==
    req.files # <<>> =>
        LET extension == Lower(SplitExt(req.files[1]))
        IN  /\ file_type \in {"pdf", "doc", "image", "unknown"}
            /\ extension \notin PdfExts \cup DocExts \cup ImageExts
                    => file_type = "unknown"

\* the categories of the lowercased extensions, as a table
CategoryTable ==
    [e \in PdfExts |-> "pdf"] @@ [e \in DocExts |-> "doc"]
        @@ [e \in ImageExts |-> "image"] @@ [e \in ExcelExts |-> "excel"]
        @@ [e \in PowerpointExts |-> "powerpoint"] @@ [e \in HtmlExts |-> "html"]
        @@ [e \in TextExts |-> "text"]

(* C4, amended: get_file_type returns, for every filename, the category    *)
(* the table gives for the lowercased extension: pdf, doc, image, excel,   *)
(* powerpoint, html or text, and unknown for every extension that is not   *)
(* in the table, the missing extension included.                           *)
C4_ClassifyTable ==
    req.files # <<>> =>
        LET extension == Lower(SplitExt(req.files[1]))
        IN  file_type = IF extension \in DOMAIN CategoryTable
                        THEN CategoryTable[extension]
                        ELSE "unknown"

\* an upper-case spreadsheet extension was classified as excel
C4_Witness ==
    /\ pc = "idle"
    /\ req.files = << <<"a", ".", "X", "L", "S">> >>
    /\ file_type = "excel"

----------------------------------------------------------------------------

\* extract_text_from_pdf is past the test of line 47
PastPdfCheck ==
    /\ ex.fn = "pdf_open"
    /\ ~ex.raised
    /\ pc \notin {"pdf_open", "pdf_page", "pdf_check"}

\* extract_text_with_ocr has returned
OcrReturned ==
    /\ PastPdfCheck
    /\ pc \notin {"ocr_render", "ocr_page"}
    /\ Count(calls, "extract_text_with_ocr") > 0

(* C5: when the directly extracted text has 100 or more characters after   *)
(* trimming, extract_text_with_ocr is not called and the function returns  *)
(* the trimmed text; it is called, once, exactly when the trimmed text has *)
(* fewer than 100 characters.                                              *)
C5_OcrOnlyBelowThreshold ==
    /\ ex.fn = "pdf_open" => Count(calls, "extract_text_with_ocr") <= 1
    /\ (ex.fn = "pdf_open" /\ pc \in {"pdf_open", "pdf_page", "pdf_check"})
            => Count(calls, "extract_text_with_ocr") = 0
    /\ PastPdfCheck =>
            IF Len(Strip(ex.direct_text)) >= 100
            THEN /\ Count(calls, "extract_text_with_ocr") = 0
                 /\ ret = Strip(ex.direct_text)
            ELSE Count(calls, "extract_text_with_ocr") = 1

\* two pages of 49 characters make 100 trimmed characters (102 untrimmed):
\* the function returned them without OCR
C5_Witness ==
    /\ pc = "ret"
    /\ PastPdfCheck
    /\ Len(Strip(ex.direct_text)) = 100
    /\ Len(ex.direct_text) > 100
    /\ calls = <<"extract_text_from_pdf">>
    /\ ret = Strip(ex.direct_text)

(* C6: after the OCR fallback ran, the function returns the trimmed OCR    *)
(* text if it is longer than the trimmed directly extracted text, and the  *)
(* trimmed directly extracted text otherwise, equal lengths included.      *)
C6_LongerTextWins ==
    OcrReturned =>
        /\ Len(Strip(ex.ocr_text)) > Len(Strip(ex.direct_text))
                => ret = Strip(ex.ocr_text)
        /\ Len(Strip(ex.ocr_text)) <= Len(Strip(ex.direct_text))
                => ret = Strip(ex.direct_text)

\* both texts have 49 characters and the directly extracted one is returned
C6_Witness ==
    /\ pc = "ret"
    /\ OcrReturned
    /\ Len(Strip(ex.ocr_text)) = 49
    /\ Len(Strip(ex.direct_text)) = 49
    /\ ret = Strip(ex.direct_text)
    /\ ret # Strip(ex.ocr_text)

----------------------------------------------------------------------------

\* extract_text_from_image has returned
ImageReturned ==
    /\ ex.fn = "img_open"
    /\ ~ex.raised
    /\ pc \notin {"img_open", "img_ocr1", "img_ocr2", "img_ocr3"}

\* the settings of the three attempts
AttemptOrder ==
    <<[image |-> "enhanced", config |-> ""],
      [image |-> "enhanced", config |-> "--oem 3 --psm 6"],
      [image |-> "original", config |-> ""]>>

(* C7: the OCR attempts come in the order enhanced image with the default  *)
(* settings, enhanced image with --psm 6, original image with the default  *)
(* settings; there are at most three; attempt n+1 runs exactly when        *)
(* attempt n returned fewer than 50 trimmed characters; the function       *)
(* returns the trimmed text of the last attempt, short or empty as it may  *)
(* be.                                                                     *)
C7_EscalationOrder ==
    /\ ex.fn = "img_open" =>
            /\ Len(ex.attempts) <= 3
            /\ \A n \in 1..Len(ex.attempts) :
                    /\ ex.attempts[n].image = AttemptOrder[n].image
                    /\ ex.attempts[n].config = AttemptOrder[n].config
    /\ ImageReturned =>
            /\ caught \cap {"open_error", "enhance_error"} = {}
                    => Len(ex.attempts) >= 1
            /\ \A n \in 1..Len(ex.attempts) :
                    n < 3 =>
                        (Len(ex.attempts) > n
                            <=> /\ ~ex.attempts[n].raised
                                /\ Len(Strip(ex.attempts[n].text)) < 50)
            /\ (Len(ex.attempts) > 0 /\ ~ex.attempts[Len(ex.attempts)].raised)
                    => ret = Strip(ex.attempts[Len(ex.attempts)].text)

\* three short attempts: the function returned the third one's 49
\* characters, which the first attempt had not found
C7_Witness ==
    /\ pc = "ret"
    /\ ImageReturned
    /\ Len(ex.attempts) = 3
    /\ \A n \in 1..3 : ~ex.attempts[n].raised
    /\ ex.attempts[1].text = <<>>
    /\ Len(ret) = 49
    /\ ret = Strip(ex.attempts[3].text)

(* C8: an OCR attempt that raises counts as an empty attempt, so that the  *)
(* next attempt of the sequence still runs: a failed first or second       *)
(* attempt is followed by another one.                                     *)
C8_FailedAttemptEscalates ==
    ImageReturned =>
        \A n \in 1..Len(ex.attempts) :
            (ex.attempts[n].raised /\ n < 3) => Len(ex.attempts) > n

----------------------------------------------------------------------------

\* extract_text_from_pdf has returned
PdfReturned ==
    /\ ex.fn = "pdf_open"
    /\ ~ex.raised
    /\ pc \notin {"pdf_open", "pdf_page", "pdf_check", "ocr_render", "ocr_page"}

RECURSIVE TextOfPages(_, _)
\* the texts of the first k pages that are not blank, each followed by a
\* blank line
TextOfPages(pages, k) ==
    IF k = 0 THEN <<>>
    ELSE TextOfPages(pages, k - 1)
            \o (IF Strip(pages[k].text) = <<>> THEN <<>>
                ELSE pages[k].text \o <<"\n", "\n">>)

----------------------------------------------------------------------------

\* extract_text_from_doc_legacy has returned
DocLegacyReturned ==
    /\ ex.fn = "doc_legacy"
    /\ ~ex.raised
    /\ pc \notin {"doc_legacy", "doc_convert", "docx"}

(* C10: extract_text_from_doc_legacy runs LibreOffice once; when the       *)
(* conversion fails (a return code other than 0, more than 30 seconds, no  *)
(* .docx file in the output directory) it returns the empty string without *)
(* raising and without reading a document; it reads the converted document *)
(* only after a conversion that succeeded.                                 *)
C10_ConversionFailureIsEmpty ==
    /\ ex.fn = "doc_legacy" => Count(calls, "libreoffice") <= 1
    /\ DocLegacyReturned =>
            LET run == ex.conversion
                failed == \/ run.returncode # 0
                          \/ run.seconds > 30
                          \/ id_docx \notin run.listing
            IN  /\ Count(calls, "libreoffice") = 1
                /\ failed =>
                        /\ ret = <<>>
                        /\ Count(calls, "extract_text_from_docx") = 0
                        /\ pc = "ret" \/ LastIsSuccess
                /\ ~failed => Count(calls, "extract_text_from_docx") = 1

\* LibreOffice ended with return code 1 and left a .docx file behind: the
\* function returned "" and did not read it
C10_Witness ==
    /\ pc = "ret"
    /\ DocLegacyReturned
    /\ ex.conversion.returncode = 1
    /\ id_docx \in ex.conversion.listing
    /\ ret = <<>>
    /\ calls = <<"extract_text_from_doc", "libreoffice">>

----------------------------------------------------------------------------
(* C11 *)

\* extract_text_from_docx read a document and returned
DocxReturned ==
    /\ pc = "ret"
    /\ Count(calls, "extract_text_from_docx") = 1
    /\ "docx" \notin caught

RECURSIVE CellsFrom(_, _, _, _)
\* the cell texts met on a walk over the tables from cell c of row r of
\* table t: cell after cell in a row, row after row in a table, table after
\* table
CellsFrom(tables, t, r, c) ==
    IF t > Len(tables) THEN <<>>
    ELSE IF r > Len(tables[t]) THEN CellsFrom(tables, t + 1, 1, 1)
    ELSE IF c > Len(tables[t][r]) THEN CellsFrom(tables, t, r + 1, 1)
    ELSE <<tables[t][r][c]>> \o CellsFrom(tables, t, r, c + 1)

\* the entries of a document in the order of the claim: every paragraph
\* text, then every cell text
EntriesInOrder(doc) == doc.paragraphs \o CellsFrom(doc.tables, 1, 1, 1)

RECURSIVE OnePerLine(_, _)
\* text is exactly the entries, each one but the last followed by one line
\* break, and nothing else; no entry gives the empty text
OnePerLine(text, entries) ==
    IF Len(entries) = 0 THEN text = <<>>
    ELSE LET e == Head(entries)
             n == Len(e)
         IN  /\ Len(text) >= n
             /\ SubSeq(text, 1, n) = e
             /\ IF Len(entries) = 1
                THEN Len(text) = n
                ELSE /\ Len(text) > n
                     /\ text[n + 1] = "\n"
                     /\ OnePerLine(SubSeq(text, n + 2, Len(text)),
                                   Tail(entries))

\* C11: when extract_text_from_docx has read a document, the text it returns
\* is every paragraph text in document order, then every cell text table by
\* table, row by row and cell by cell, one after the other with one line
\* break between two entries: empty paragraphs and empty cells are kept as
\* empty entries, and nothing is left out, repeated or moved.
C11_DocxTextInOrder ==
    DocxReturned => OnePerLine(ret, EntriesInOrder(ex.doc))

\* a document with an empty paragraph between two others and a table with an
\* empty cell was read, and the text has been returned
C11_Witness ==
    /\ DocxReturned
    /\ Len(ex.doc.paragraphs) = 3
    /\ ex.doc.paragraphs[2] = <<>>
    /\ Len(ex.doc.tables) = 1
    /\ ex.doc.tables[1][1][2] = <<>>
    /\ ret = <<"p", "\n", "\n", "q", "\n", "a", "\n", "\n", "b", "\n", "c">>

----------------------------------------------------------------------------
(* C12 *)

\* a stage that made a temporary directory is running: extract_text_with_ocr,
\* or extract_text_from_doc_legacy with the extract_text_from_docx it calls
InTempDirStage ==
    \/ pc \in {"ocr_render", "ocr_page", "doc_convert"}
    \/ pc = "docx" /\ ex.temp_dir # <<>>

\* C12: outside the stages that make one, no temporary directory and no file
\* of one exists: the rendered-page directory of the OCR stage and the
\* conversion directory of the legacy-doc stage are gone, with what was
\* written into them, when the call returns, whether it returned a text,
\* returned early after a failed conversion or a missing output, or caught an
\* exception raised inside the stage.
C12_NoTempDirAfterReturn ==
    ~InTempDirStage => tmpdirs = {}

\* the OCR stage rendered two pages into its directory, image_to_string
\* raised on the second, and the extractor has returned
C12_Witness ==
    /\ pc = "ret"
    /\ Count(calls, "extract_text_with_ocr") = 1
    /\ "ocr" \in caught
    /\ Len(ex.images) = 2
    /\ ex.i = 1
    /\ tmpdirs = {}

----------------------------------------------------------------------------
(* C13 *)

\* C13: once a handler is finished with a file, because it answered or went
\* on with the next file of the batch, the file it saved into the upload
\* directory for it no longer exists, whether the extraction returned, the
\* type was unsupported or an exception was raised.
C13_UploadRemoved ==
    JustAnswered =>
        UploadPath(FreshName(Finished), LastFile) \notin uploads

====
